---- MODULE Spec2Model ----
(***************************************************************************)
(* A model of file_organizer.py (FileOrganizer: classification, placement, *)
(* duplicate handling, batch runs) and of watcher.py (FileOrganizerHandler:*)
(* the debounce / stability probe run by the observer threads; FileWatcher:*)
(* start, stop and run of the watch session).                              *)
(*                                                                         *)
(* A path is a sequence of components, a component (a file or directory    *)
(* name) is a sequence of one-character strings, so that Path.suffix,      *)
(* Path.stem, str.lower and the f-string of the rename loop are computed   *)
(* character by character as the code computes them.                       *)
(***************************************************************************)
EXTENDS Integers, Sequences, FiniteSets, TLC

\* ---------------------------------------------------------------- bounds
MaxFiles == 2
MaxOps == 2

\* ------------------------------------------------------- characters, names
None == "None"

UpperChars == <<"A","B","C","D","E","F","G","H","I","J","K","L","M",
                "N","O","P","Q","R","S","T","U","V","W","X","Y","Z">>
LowerChars == <<"a","b","c","d","e","f","g","h","i","j","k","l","m",
                "n","o","p","q","r","s","t","u","v","w","x","y","z">>
DigitChars == <<"0","1","2","3","4","5","6","7","8","9">>

SetMax(S) == CHOOSE x \in S : \A y \in S : y <= x
SetMin(S) == CHOOSE x \in S : \A y \in S : x <= y

\* str.lower(), one character
LowerChar(c) ==
  IF \E i \in 1..Len(UpperChars) : UpperChars[i] = c
  THEN LowerChars[CHOOSE i \in 1..Len(UpperChars) : UpperChars[i] = c]
  ELSE c

\* str.lower()
Lower(s) == [i \in 1..Len(s) |-> LowerChar(s[i])]

\* str(counter) of the f-string: the decimal digits of n >= 0
RECURSIVE Str(_)
Str(n) == IF n < 10 THEN <<DigitChars[n + 1]>>
          ELSE Str(n \div 10) \o <<DigitChars[(n % 10) + 1]>>

\* name.rfind('.') as a 1-based index, 0 when there is no dot
RFindDot(name) ==
  LET dots == {i \in 1..Len(name) : name[i] = "."}
  IN IF dots = {} THEN 0 ELSE SetMax(dots)

\* PurePath.suffix: the last dot and what follows it, unless the dot is the
\* first or the last character of the name
Suffix(name) ==
  LET i == RFindDot(name)
  IN IF 1 < i /\ i < Len(name) THEN SubSeq(name, i, Len(name)) ELSE <<>>

\* PurePath.stem
Stem(name) ==
  LET i == RFindDot(name)
  IN IF 1 < i /\ i < Len(name) THEN SubSeq(name, 1, i - 1) ELSE name

\* PurePath.name and PurePath.parent, and the / operator
Name(path) == IF path = <<>> THEN <<>> ELSE path[Len(path)]
Parent(path) == IF path = <<>> THEN <<>> ELSE SubSeq(path, 1, Len(path) - 1)
Join(dir, name) == Append(dir, name)

IsPrefix(d, p) == Len(d) <= Len(p) /\ SubSeq(p, 1, Len(d)) = d
IsStrictPrefix(d, p) == Len(d) < Len(p) /\ SubSeq(p, 1, Len(d)) = d

\* ------------------------------------------------------------ file system
\* files: a function from the paths of the regular files to their records
\* [content, size, mtime]; dirs: the set of the paths of the directories.
PathExists(fl, ds, p) == p \in DOMAIN fl \/ p \in ds
IsDir(ds, p) == p \in ds
IsFile(fl, p) == p \in DOMAIN fl

\* datetime.strftime: the format is a sequence of tokens, the directives
\* "%Y" and "%m" and literal characters; mtime is a record [year, month]
RECURSIVE Strftime(_, _)
Strftime(fmt, t) ==
  IF fmt = <<>> THEN <<>>
  ELSE LET tok == Head(fmt)
           out == IF tok = "%Y" THEN Str(t.year)
                  ELSE IF tok = "%m"
                       THEN (IF t.month < 10 THEN <<"0">> ELSE <<>>) \o Str(t.month)
                       ELSE <<tok>>
       IN out \o Strftime(Tail(fmt), t)

\* Path.mkdir(parents=True, exist_ok=True): every missing directory of the
\* chain is created; it fails when the path or an ancestor is a regular file
MkdirFails(fl, d) == \E i \in 1..Len(d) : SubSeq(d, 1, i) \in DOMAIN fl
Mkdir(ds, d) == ds \cup {SubSeq(d, 1, i) : i \in 0..Len(d)}

\* ------------------------------------------- components, names, extensions
cW == <<"w">>
cV == <<"v">>
cSub == <<"s">>
cO == <<"o">>
cDocuments == <<"D">>
cImages == <<"I">>
cExtras == <<"E","x","t","r","a","s">>

WatchDir == <<cW>>
OtherDir == <<cV>>
SubDir == <<cW, cSub>>
\* the fixed Extras folder used when no rule is configured
DefaultExtras == << <<"C",":","U","s","e","r","s">>, cExtras >>

nATxt == <<"a",".","t","x","t">>
nA1Txt == <<"a","_","1",".","t","x","t">>
nBTXT == <<"b",".","T","X","T">>
nCXyz == <<"c",".","x","y","z">>
nTTmp == <<"t",".","t","m","p">>
nIMe == <<"i",".","m","e">>
FileNames == {nATxt, nA1Txt, nBTXT, nCXyz, nTTmp, nIMe}

eTxt == <<".","t","x","t">>
ePng == <<".","p","n","g">>
eTmp == <<".","t","m","p">>

Mtimes == {[year |-> 2024, month |-> 3], [year |-> 2023, month |-> 11]}

\* the value None of a path, and of a category
NoPath == << <<>> >>

\* ------------------------------------------------------------ configuration
\* organize_rules is the JSON object in its order: a sequence of
\* [name, extensions, target_folder]
RulesPlain ==
  << [name |-> "Documents", extensions |-> {eTxt}, target_folder |-> <<cO, cDocuments>>],
     [name |-> "Images", extensions |-> {ePng, eTxt}, target_folder |-> <<cO, cImages>>] >>
\* a target folder inside the watched directory
RulesNested ==
  << [name |-> "Documents", extensions |-> {eTxt}, target_folder |-> <<cW, cDocuments>>] >>
RulesNone == << >>

\* a watch list of a directory, a path that is a regular file or missing, and
\* a second directory
WatchDirsMixed == <<SubDir, Join(WatchDir, nATxt), WatchDir>>

AllConfigs ==
  [ watch_directories : {<<WatchDir>>, WatchDirsMixed},
    organize_rules : {RulesPlain, RulesNested, RulesNone},
    ignore_extensions : {{eTmp}, {eTmp, eTxt}},
    ignore_files : {{nIMe}},
    duplicate_handling : {"rename", "skip", "overwrite"},
    organize_by_date : BOOLEAN,
    date_format : {<<"%Y", "-", "%m">>},
    dry_run : BOOLEAN,
    recursive : BOOLEAN ]

\* the configuration of the repository's tests
BaseConfig ==
  [ watch_directories |-> <<WatchDir>>,
    organize_rules |-> RulesPlain,
    ignore_extensions |-> {eTmp},
    ignore_files |-> {nIMe},
    duplicate_handling |-> "rename",
    organize_by_date |-> FALSE,
    date_format |-> <<"%Y", "-", "%m">>,
    dry_run |-> FALSE,
    recursive |-> FALSE ]

\* in how many settings a configuration departs from BaseConfig; the layout
\* (rules and recursive scan) counts as one setting
Departures(c) ==
  Cardinality({k \in {"watch_directories", "ignore_extensions", "duplicate_handling",
                      "organize_by_date", "dry_run"} : c[k] # BaseConfig[k]})
  + (IF c.organize_rules # BaseConfig.organize_rules \/ c.recursive # BaseConfig.recursive
     THEN 1 ELSE 0)

\* the configurations the batch is checked under: BaseConfig with one setting
\* changed, and the layout with the target folder inside a recursively scanned
\* watch directory under every duplicate policy
Configs ==
  {c \in AllConfigs :
     \/ Departures(c) <= 1
     \/ /\ c.organize_rules = RulesNested /\ c.recursive
        /\ c.watch_directories = BaseConfig.watch_directories
        /\ c.ignore_extensions = BaseConfig.ignore_extensions
        /\ ~c.organize_by_date /\ ~c.dry_run}

\* --------------------------------------------------------- FileOrganizer
\* (mutant) the last matching category wins instead of the first
ScanRules_LastMatch(rules, extension, i) ==
  LET M == {j \in i..Len(rules) : extension \in rules[j].extensions}
  IN IF M = {} THEN "Extras" ELSE rules[SetMax(M)].name

RECURSIVE ScanRules(_, _, _)
\* the for loop of _get_file_category over organize_rules, in its order
ScanRules(rules, extension, i) ==
  IF i > Len(rules) THEN "Extras"
  ELSE IF extension \in rules[i].extensions THEN rules[i].name
       ELSE ScanRules(rules, extension, i + 1)

\* (mutant) the rules are consulted before the ignore lists
get_file_category_RulesFirst(cfg, file_path) ==
  LET extension == Lower(Suffix(Name(file_path)))
      category == ScanRules(cfg.organize_rules, extension, 1)
  IN IF category # "Extras" THEN category
     ELSE IF extension \in cfg.ignore_extensions \/ Name(file_path) \in cfg.ignore_files
          THEN None
          ELSE "Extras"

get_file_category(cfg, file_path) ==
  LET extension == Lower(Suffix(Name(file_path)))
  IN IF extension \in cfg.ignore_extensions THEN None
     ELSE IF Name(file_path) \in cfg.ignore_files THEN None
     ELSE ScanRules(cfg.organize_rules, extension, 1)

\* config["organize_rules"][category]
RuleOf(rules, category) ==
  rules[CHOOSE i \in 1..Len(rules) : rules[i].name = category]

\* (mutant) the Extras folder is put beside the last rule's target folder
BaseFolder_LastRule(cfg, category) ==
  IF category = "Extras"
  THEN IF Len(cfg.organize_rules) > 0
       THEN Join(Parent(cfg.organize_rules[Len(cfg.organize_rules)].target_folder), cExtras)
       ELSE DefaultExtras
  ELSE RuleOf(cfg.organize_rules, category).target_folder

\* the folder _get_target_path starts from, before date bucketing
BaseFolder(cfg, category) ==
  IF category = "Extras"
  THEN IF Len(cfg.organize_rules) > 0
       THEN Join(Parent(cfg.organize_rules[1].target_folder), cExtras)
       ELSE DefaultExtras
  ELSE RuleOf(cfg.organize_rules, category).target_folder

\* (mutant) no date folder is made for the Extras category
get_target_path_ExtrasUndated(fl, ds, cfg, file_path, category) ==
  LET dated == cfg.organize_by_date /\ category # "Extras"
      statFails == dated /\ ~PathExists(fl, ds, file_path)
      base == BaseFolder(cfg, category)
      target_folder ==
        IF dated /\ ~statFails
        THEN Join(base, Strftime(cfg.date_format, fl[file_path].mtime))
        ELSE base
  IN IF statFails
     THEN [raised |-> "FileNotFoundError", dirs |-> ds, path |-> NoPath]
     ELSE IF MkdirFails(fl, target_folder)
          THEN [raised |-> "FileExistsError", dirs |-> ds, path |-> NoPath]
          ELSE [raised |-> None, dirs |-> Mkdir(ds, target_folder),
                path |-> Join(target_folder, Name(file_path))]

\* _get_target_path: [raised, dirs, path]; dirs is the set of directories
\* after target_folder.mkdir(parents=True, exist_ok=True)
get_target_path(fl, ds, cfg, file_path, category) ==
  LET statFails == cfg.organize_by_date /\ ~PathExists(fl, ds, file_path)
      base == BaseFolder(cfg, category)
      target_folder ==
        IF cfg.organize_by_date /\ ~statFails
        THEN Join(base, Strftime(cfg.date_format, fl[file_path].mtime))
        ELSE base
  IN IF statFails
     THEN [raised |-> "FileNotFoundError", dirs |-> ds, path |-> NoPath]
     ELSE IF MkdirFails(fl, target_folder)
          THEN [raised |-> "FileExistsError", dirs |-> ds, path |-> NoPath]
          ELSE [raised |-> None, dirs |-> Mkdir(ds, target_folder),
                path |-> Join(target_folder, Name(file_path))]

RECURSIVE RenameLoop_Chained(_, _, _, _, _, _, _)
\* (mutant) each suffix is attached to the name tried before, not to the
\* original stem
RenameLoop_Chained(fl, ds, target_path, stem, suffix, parent, counter) ==
  IF PathExists(fl, ds, target_path)
  THEN RenameLoop_Chained(fl, ds,
         Join(parent, Stem(Name(target_path)) \o <<"_">> \o Str(counter) \o suffix),
         stem, suffix, parent, counter + 1)
  ELSE target_path

RECURSIVE RenameLoop(_, _, _, _, _, _, _)
\* the while loop of _handle_duplicate
RenameLoop(fl, ds, target_path, stem, suffix, parent, counter) ==
  IF PathExists(fl, ds, target_path)
  THEN RenameLoop(fl, ds, Join(parent, stem \o <<"_">> \o Str(counter) \o suffix),
                  stem, suffix, parent, counter + 1)
  ELSE target_path

\* (mutant) the skip policy is not honoured: the destination is returned
handle_duplicate_NoSkip(fl, ds, cfg, target_path) ==
  IF ~PathExists(fl, ds, target_path) THEN target_path
  ELSE IF cfg.duplicate_handling \in {"skip", "overwrite"} THEN target_path
  ELSE RenameLoop(fl, ds, target_path, Stem(Name(target_path)),
                  Suffix(Name(target_path)), Parent(target_path), 1)

\* _handle_duplicate: the path to move to, or NoPath for None
handle_duplicate(fl, ds, cfg, target_path) ==
  IF ~PathExists(fl, ds, target_path) THEN target_path
  ELSE IF cfg.duplicate_handling = "skip" THEN NoPath
  ELSE IF cfg.duplicate_handling = "overwrite" THEN target_path
  ELSE RenameLoop(fl, ds, target_path, Stem(Name(target_path)),
                  Suffix(Name(target_path)), Parent(target_path), 1)

\* the files after dst has taken the file of src
Renamed(fl, src, dst) ==
  [p \in (DOMAIN fl \ {src}) \cup {dst} |-> IF p = dst THEN fl[src] ELSE fl[p]]

\* shutil.move(src, dst) of a regular file: [raised, files]. A missing source
\* raises; a destination that is a directory receives the file under its own
\* name and raises when that name is taken; moving a file onto itself
\* changes nothing; otherwise the destination is replaced.
Move(fl, ds, src, dst) ==
  IF src \notin DOMAIN fl THEN [raised |-> "FileNotFoundError", files |-> fl]
  ELSE IF dst \in ds
       THEN IF PathExists(fl, ds, Join(dst, Name(src)))
            THEN [raised |-> "Error", files |-> fl]
            ELSE [raised |-> None, files |-> Renamed(fl, src, Join(dst, Name(src)))]
       ELSE [raised |-> None, files |-> Renamed(fl, src, dst)]

\* ------------------------------------------------------------------ state
Observers == {"obs1", "obs2"}
Threads == {"main"} \cup Observers
Faults == {None, "PermissionError", "OSError"}

VARIABLES
  config,      \* the loaded configuration, read-only after construction
  files,       \* the regular files: path -> [content, size, mtime]
  dirs,        \* the directories
  stats,       \* FileOrganizer.stats
  call,        \* per thread: the organize_file call between its duplicate check and its move
  hist,        \* per thread: the record of its latest organize_file call
  runpc,       \* position of run(): "idle", "dirs" (loop of run), "files" (loop of organize_directory)
  todo,        \* the watch directories run() has still to pass to organize_directory
  pending,     \* the enumerated files organize_directory has still to process
  ops,         \* number of run() calls and direct organize_file calls started
  created,     \* number of files the environment has created
  processing_files, \* FileOrganizerHandler.processing_files
  wpc,         \* per observer thread: its position in _process_file
  wpath,       \* per observer thread: file_path of its _process_file call
  initial_size,\* per observer thread: the local initial_size
  timers,      \* per path: the release threads started and not yet woken
  events,      \* number of events delivered to the handler
  last_event,  \* the observer and the file path of the event delivered last
  written,     \* number of writes the environment has made to watched files
  probe,       \* per observer thread: what its two probes saw, and its verdict
  track,       \* per path: organize_file calls since the path entered
               \* processing_files, and its way from a rejection as still
               \* being written ("rejected") over the acceptance of a later
               \* event ("retrying") to organize_file ("placed")
  observers,   \* FileWatcher.observers: the observers start() has appended,
               \* each named by the index of its watch directory
  othread,     \* per observer: "new", "running" (started), "stopped" (stop()
               \* called, thread not yet ended), "joined"
  spc,         \* position of the main thread in FileWatcher.run()
  sidx,        \* the index of the for loop of start() or of stop()
  caught,      \* the except clause of run() that has caught an exception
  exit_status  \* the status sys.exit has ended the process with

vars ==
  <<config, files, dirs, stats, call, hist, runpc, todo, pending, ops, created,
    processing_files, wpc, wpath, initial_size, timers, events, last_event, written,
    probe, track, observers, othread, spc, sidx, caught, exit_status>>

\* the state of run(), of the handler and of the watch session
batch == <<runpc, todo, pending, ops, created>>
watch ==
  <<processing_files, wpc, wpath, initial_size, timers, events, last_event, written,
    probe, track>>
life == <<observers, othread, spc, sidx, caught, exit_status>>

\* the most watch directories a configuration of the watch session lists
MaxDirs == 2

\* FileWatcher.__init__: no observer yet
FileWatcherNew ==
  /\ observers = << >>
  /\ othread = [i \in 1..MaxDirs |-> "new"]
  /\ spc = "init"
  /\ sidx = 0
  /\ caught = None
  /\ exit_status = None

\* the files the watcher is told about: a.txt in either watched directory
WatchNames == {nATxt}
WatchPaths == {Join(d, n) : d \in {WatchDir, OtherDir}, n \in WatchNames}

NoProbe == [e1 |-> FALSE, s1 |-> 0, e2 |-> FALSE, s2 |-> 0, verdict |-> "none"]

\* FileOrganizerHandler.__init__ and FileWatcher.__init__: nothing is in
\* flight and nothing is watched
WatcherIdle ==
  /\ FileWatcherNew
  /\ processing_files = {}
  /\ wpc = [t \in Observers |-> "idle"]
  /\ wpath = [t \in Observers |-> NoPath]
  /\ initial_size = [t \in Observers |-> 0]
  /\ timers = [p \in WatchPaths |-> 0]
  /\ events = 0
  /\ last_event = [observer |-> None, file_path |-> NoPath]
  /\ written = 0
  /\ probe = [t \in Observers |-> NoProbe]
  /\ track = [p \in WatchPaths |-> [calls |-> 0, retry |-> "no"]]

IdleCall ==
  [pc |-> "none", file_path |-> NoPath, category |-> None, target_path |-> NoPath,
   key |-> None, loaded |-> 0]

NoHist ==
  [phase |-> "none", file_path |-> NoPath, category |-> None, dest |-> NoPath,
   destExisted |-> FALSE, target_path |-> NoPath, outcome |-> "none",
   returned |-> FALSE, raised |-> None]

Bump(st, k) == [st EXCEPT ![k] = @ + 1]

\* organize_file has decided the outcome of the call: the file system it
\* leaves, the record of the call, and the counter self.stats[key] += 1 is to
\* raise (None: no counter). The statement reads the counter and writes it
\* back raised by one. The observer threads share the one organizer, and
\* another thread may run between the two; run() has the organizer to itself.
Return(t, h, outcome, returned, raised, fl, ds, key) ==
  LET r == [h EXCEPT !.outcome = outcome, !.returned = returned, !.raised = raised]
  IN /\ files' = fl
     /\ dirs' = ds
     /\ IF key # None /\ t \in Observers
        THEN /\ stats' = stats
             /\ call' = [call EXCEPT ![t] =
                  [IdleCall EXCEPT !.pc = "count", !.file_path = h.file_path,
                                   !.key = key, !.loaded = stats[key]]]
             /\ hist' = [hist EXCEPT ![t] = [r EXCEPT !.phase = "counting"]]
        ELSE /\ stats' = IF key = None THEN stats ELSE Bump(stats, key)
             /\ call' = [call EXCEPT ![t] = IdleCall]
             /\ hist' = [hist EXCEPT ![t] = [r EXCEPT !.phase = "done"]]

\* the second half of self.stats[key] += 1 in an observer thread: the value
\* read, raised by one, is written, and organize_file returns
organize_file_count(t) ==
  /\ call[t].pc = "count"
  /\ stats' = [stats EXCEPT ![call[t].key] = call[t].loaded + 1]
  /\ call' = [call EXCEPT ![t] = IdleCall]
  /\ hist' = [hist EXCEPT ![t].phase = "done"]
  /\ UNCHANGED <<files, dirs>>

\* organize_file up to and including _handle_duplicate (lines 132-153 and the
\* except clauses); fault is an exception the file system raises in mkdir
organize_file_begin(t, file_path, fault) ==
  LET h0 == [NoHist EXCEPT !.phase = "running", !.file_path = file_path]
      category == get_file_category(config, file_path)
      h1 == [h0 EXCEPT !.category = category]
      tp == get_target_path(files, dirs, config, file_path, category)
      dup == handle_duplicate(files, tp.dirs, config, tp.path)
      h2 == [h1 EXCEPT !.dest = tp.path,
                       !.destExisted = PathExists(files, tp.dirs, tp.path),
                       !.target_path = dup]
  IN IF IsDir(dirs, file_path)
     THEN Return(t, h0, "directory", FALSE, None, files, dirs, None)
     ELSE IF category = None
     THEN Return(t, h1, "ignored", FALSE, None, files, dirs, "skipped")
     ELSE IF fault # None
     THEN Return(t, h1, "error", FALSE, fault, files, dirs, "errors")
     ELSE IF tp.raised # None
     THEN Return(t, h1, "error", FALSE, tp.raised, files, dirs, "errors")
     ELSE IF dup = NoPath
     THEN Return(t, h2, "duplicate", FALSE, None, files, tp.dirs, "skipped")
     ELSE /\ dirs' = tp.dirs
          /\ UNCHANGED <<files, stats>>
          /\ call' = [call EXCEPT ![t] =
               [IdleCall EXCEPT !.pc = "move", !.file_path = file_path,
                                !.category = category, !.target_path = dup]]
          /\ hist' = [hist EXCEPT ![t] = h2]

\* (mutant) a PermissionError of the move is logged but not counted
organize_file_end_PermissionUncounted(t, fault) ==
  /\ call[t].pc = "move"
  /\ LET c == call[t]
         h == hist[t]
         mv == Move(files, dirs, c.file_path, c.target_path)
     IN IF config.dry_run
        THEN Return(t, h, "dryrun", TRUE, None, files, dirs, "moved")
        ELSE IF fault = "PermissionError"
        THEN Return(t, h, "error", FALSE, fault, files, dirs, None)
        ELSE IF fault # None
        THEN Return(t, h, "error", FALSE, fault, files, dirs, "errors")
        ELSE IF mv.raised # None
        THEN Return(t, h, "error", FALSE, mv.raised, files, dirs, "errors")
        ELSE Return(t, h, "moved", TRUE, None, mv.files, dirs, "moved")

\* (mutant) the dry-run flag is not consulted
organize_file_end_IgnoresDryRun(t, fault) ==
  /\ call[t].pc = "move"
  /\ LET c == call[t]
         h == hist[t]
         mv == Move(files, dirs, c.file_path, c.target_path)
     IN IF fault # None
        THEN Return(t, h, "error", FALSE, fault, files, dirs, "errors")
        ELSE IF mv.raised # None
        THEN Return(t, h, "error", FALSE, mv.raised, files, dirs, "errors")
        ELSE Return(t, h, "moved", TRUE, None, mv.files, dirs, "moved")

\* organize_file from the dry-run test to its return (lines 155-174); fault
\* is an exception the file system raises in shutil.move
organize_file_end(t, fault) ==
  /\ call[t].pc = "move"
  /\ LET c == call[t]
         h == hist[t]
         mv == Move(files, dirs, c.file_path, c.target_path)
     IN IF config.dry_run
        THEN Return(t, h, "dryrun", TRUE, None, files, dirs, "moved")
        ELSE IF fault # None
        THEN Return(t, h, "error", FALSE, fault, files, dirs, "errors")
        ELSE IF mv.raised # None
        THEN Return(t, h, "error", FALSE, mv.raised, files, dirs, "errors")
        ELSE Return(t, h, "moved", TRUE, None, mv.files, dirs, "moved")

\* (mutant) the tree is walked whatever the recursive setting
Enumerate_AlwaysRecursive(fl, dir_path, recursive) ==
  {p \in DOMAIN fl : IsStrictPrefix(dir_path, p)}

\* the list organize_directory builds: iterdir() or rglob("*"), regular files only
Enumerate(fl, dir_path, recursive) ==
  IF recursive THEN {p \in DOMAIN fl : IsStrictPrefix(dir_path, p)}
  ELSE {p \in DOMAIN fl : Parent(p) = dir_path}

\* ------------------------------------------------------- batch: run()
\* run(): with no watch directory it warns and returns
run_start ==
  /\ runpc = "idle" /\ call["main"].pc = "none"
  /\ ops < MaxOps
  /\ ops' = ops + 1
  /\ IF config.watch_directories = << >>
     THEN UNCHANGED <<runpc, todo>>
     ELSE runpc' = "dirs" /\ todo' = config.watch_directories
  /\ UNCHANGED <<config, files, dirs, stats, call, hist, pending, created>>
  /\ UNCHANGED watch
  /\ UNCHANGED life

\* (mutant) a watch directory that is missing or no directory ends the run
organize_directory_AbortsRun ==
  /\ runpc = "dirs" /\ todo # << >>
  /\ LET directory == Head(todo)
     IN IF ~IsDir(dirs, directory)
        THEN /\ todo' = << >>
             /\ runpc' = "idle"
             /\ UNCHANGED pending
        ELSE /\ pending' = Enumerate(files, directory, config.recursive)
             /\ runpc' = "files"
             /\ UNCHANGED todo
  /\ UNCHANGED <<config, files, dirs, stats, call, hist, ops, created>>
  /\ UNCHANGED watch
  /\ UNCHANGED life

\* organize_directory up to its for loop: a missing directory or a path that
\* is no directory is logged and run() goes on; the files are enumerated once
organize_directory ==
  /\ runpc = "dirs" /\ todo # << >>
  /\ LET directory == Head(todo)
     IN IF ~IsDir(dirs, directory)
        THEN /\ todo' = Tail(todo)
             /\ runpc' = IF Tail(todo) = << >> THEN "idle" ELSE "dirs"
             /\ UNCHANGED pending
        ELSE /\ pending' = Enumerate(files, directory, config.recursive)
             /\ runpc' = "files"
             /\ UNCHANGED todo
  /\ UNCHANGED <<config, files, dirs, stats, call, hist, ops, created>>
  /\ UNCHANGED watch
  /\ UNCHANGED life

\* one iteration of the for loop of organize_directory: the list has no
\* guaranteed order, so the next file is any of those left
organize_next ==
  /\ runpc = "files" /\ call["main"].pc = "none"
  /\ \E file_path \in pending : \E fault \in Faults :
       /\ pending' = pending \ {file_path}
       /\ organize_file_begin("main", file_path, fault)
  /\ UNCHANGED <<config, runpc, todo, ops, created>>
  /\ UNCHANGED watch
  /\ UNCHANGED life

\* (mutant) the loop over the files ends after a call that counted an error
organize_directory_done_StopsOnError ==
  /\ runpc = "files" /\ call["main"].pc = "none"
  /\ pending = {} \/ hist["main"].outcome = "error"
  /\ todo' = Tail(todo)
  /\ runpc' = IF Tail(todo) = << >> THEN "idle" ELSE "dirs"
  /\ pending' = {}
  /\ UNCHANGED <<config, files, dirs, stats, call, hist, ops, created>>
  /\ UNCHANGED watch
  /\ UNCHANGED life

\* organize_directory returns to the loop of run(), which goes on to the
\* next watch directory or logs the summary and returns
organize_directory_done ==
  /\ runpc = "files" /\ call["main"].pc = "none" /\ pending = {}
  /\ todo' = Tail(todo)
  /\ runpc' = IF Tail(todo) = << >> THEN "idle" ELSE "dirs"
  /\ UNCHANGED <<config, files, dirs, stats, call, hist, pending, ops, created>>
  /\ UNCHANGED watch
  /\ UNCHANGED life

\* (mutant) the loop walks a live listing: a file a move has put into the
\* scanned tree is still to come
organize_move_LiveListing ==
  /\ \E fault \in Faults : organize_file_end("main", fault)
  /\ IF runpc = "files"
     THEN pending' = pending \cup (Enumerate(files', Head(todo), config.recursive) \ DOMAIN files)
     ELSE UNCHANGED pending
  /\ UNCHANGED <<config, runpc, todo, ops, created>>
  /\ UNCHANGED watch
  /\ UNCHANGED life

\* the second half of an organize_file call of the main thread
organize_move ==
  /\ \E fault \in Faults : organize_file_end("main", fault)
  /\ UNCHANGED <<config, runpc, todo, pending, ops, created>>
  /\ UNCHANGED watch
  /\ UNCHANGED life

\* organize_file called directly on a path: a file, a directory or a path
\* that does not exist
CallPaths ==
  {p \in DOMAIN files : Parent(p) \in {WatchDir, SubDir}}
    \cup {SubDir, Join(WatchDir, nATxt)}

organize_file ==
  /\ runpc = "idle" /\ call["main"].pc = "none"
  /\ ops < MaxOps
  /\ ops' = ops + 1
  /\ \E file_path \in CallPaths : \E fault \in Faults :
       organize_file_begin("main", file_path, fault)
  /\ UNCHANGED <<config, runpc, todo, pending, created>>
  /\ UNCHANGED watch
  /\ UNCHANGED life

\* ------------------------------------------------------------ environment
\* somebody puts a new file into the watched directory or its subdirectory
\* (mtime is read only for date bucketing: without it one value stands for all)
NewPaths == {Join(WatchDir, n) : n \in {nATxt, nCXyz, nTTmp, nIMe}} \cup {Join(SubDir, nATxt)}
NewMtimes == IF config.organize_by_date THEN Mtimes ELSE {[year |-> 2024, month |-> 3]}

CreateFile ==
  /\ runpc = "idle" /\ call["main"].pc = "none"
  /\ created < MaxFiles
  /\ \E q \in NewPaths : \E m \in NewMtimes :
       /\ ~PathExists(files, dirs, q)
       /\ files' = [p \in DOMAIN files \cup {q} |->
                      IF p = q
                      THEN [content |-> created + 1, size |-> 1, mtime |-> m]
                      ELSE files[p]]
  /\ created' = created + 1
  /\ UNCHANGED <<config, dirs, stats, call, hist, runpc, todo, pending, ops>>
  /\ UNCHANGED watch
  /\ UNCHANGED life

\* somebody removes a file of the enumeration before its turn has come
DeleteFile ==
  /\ runpc = "files" /\ call["main"].pc = "none"
  /\ \E q \in pending \cap DOMAIN files :
       files' = [p \in DOMAIN files \ {q} |-> files[p]]
  /\ UNCHANGED <<config, dirs, stats, call, hist, runpc, todo, pending, ops, created>>
  /\ UNCHANGED watch
  /\ UNCHANGED life

\* ------------------------------------------------------------ specification
Init ==
  /\ config \in Configs
  /\ files = << >>
  /\ dirs = {<< >>, WatchDir, SubDir}
  /\ stats = [moved |-> 0, skipped |-> 0, errors |-> 0]
  /\ call = [t \in Threads |-> IdleCall]
  /\ hist = [t \in Threads |-> NoHist]
  /\ runpc = "idle"
  /\ todo = << >>
  /\ pending = {}
  /\ ops = 0
  /\ created = 0
  /\ WatcherIdle

Next ==
  \/ run_start
  \/ organize_directory
  \/ organize_next
  \/ organize_directory_done
  \/ organize_move
  \/ organize_file
  \/ CreateFile
  \/ DeleteFile

Spec == Init /\ [][Next]_vars

\* ------------------------------------------- _get_file_category on its own
nRc == <<".","r","c">>
CatNames == FileNames \cup {nRc}

rDocuments == [name |-> "Documents", extensions |-> {eTxt}, target_folder |-> <<cO, cDocuments>>]
rImages == [name |-> "Images", extensions |-> {ePng, eTxt}, target_folder |-> <<cO, cImages>>]
\* a rule whose extension is written in upper case in the configuration
rUpper == [name |-> "Upper", extensions |-> {<<".","T","X","T">>}, target_folder |-> <<cO, <<"U">>>>]
CatRuleSet == {rDocuments, rImages, rUpper}

\* organize_rules: the rules of CatRuleSet in any order, each at most once
CatRules ==
  {r \in UNION {[1..n -> CatRuleSet] : n \in 0..Cardinality(CatRuleSet)} :
     \A i, j \in 1..Len(r) : i # j => r[i] # r[j]}

CatConfigs ==
  {[BaseConfig EXCEPT !.organize_rules = r, !.ignore_extensions = x] :
     r \in CatRules, x \in {{eTmp}, {eTmp, eTxt}}}

\* _get_file_category applied to a file of the watched directory
classify ==
  /\ \E n \in CatNames :
       hist' = [hist EXCEPT !["main"] =
         [NoHist EXCEPT !.phase = "done", !.file_path = Join(WatchDir, n),
                        !.category = get_file_category(config, Join(WatchDir, n))]]
  /\ UNCHANGED <<config, files, dirs, stats, call, runpc, todo, pending, ops, created>>
  /\ UNCHANGED watch
  /\ UNCHANGED life

CatInit ==
  /\ config \in CatConfigs
  /\ files = << >>
  /\ dirs = {<< >>, WatchDir, SubDir}
  /\ stats = [moved |-> 0, skipped |-> 0, errors |-> 0]
  /\ call = [t \in Threads |-> IdleCall]
  /\ hist = [t \in Threads |-> NoHist]
  /\ runpc = "idle"
  /\ todo = << >>
  /\ pending = {}
  /\ ops = 0
  /\ created = 0
  /\ WatcherIdle

CatNext == classify

CatSpec == CatInit /\ [][CatNext]_vars

\* ---------------------------------------------- _get_target_path on its own
\* a rule whose target folder has another parent than those of the tests
rArchives ==
  [name |-> "Archives", extensions |-> {<<".","z","i","p">>}, target_folder |-> <<cV, <<"A">>>>]
PathRuleSet == {rDocuments, rImages, rArchives}

\* organize_rules: the rules of PathRuleSet in any order, each at most once
PathRules ==
  {r \in UNION {[1..n -> PathRuleSet] : n \in 0..Cardinality(PathRuleSet)} :
     \A i, j \in 1..Len(r) : i # j => r[i] # r[j]}

PathConfigs ==
  {[BaseConfig EXCEPT !.organize_rules = r, !.organize_by_date = b] :
     r \in PathRules, b \in BOOLEAN}

\* _get_target_path applied to a file of the watched directory and a
\* category: a configured one or "Extras"
target_path_of ==
  /\ \E file_path \in DOMAIN files :
     \E category \in {config.organize_rules[i].name : i \in 1..Len(config.organize_rules)}
                       \cup {"Extras"} :
       LET tp == get_target_path(files, dirs, config, file_path, category)
       IN /\ hist' = [hist EXCEPT !["main"] =
                [NoHist EXCEPT !.phase = "done", !.file_path = file_path,
                               !.category = category, !.dest = tp.path,
                               !.raised = tp.raised]]
          /\ dirs' = tp.dirs
  /\ UNCHANGED <<config, files, stats, call, runpc, todo, pending, ops, created>>
  /\ UNCHANGED watch
  /\ UNCHANGED life

PathInit ==
  /\ config \in PathConfigs
  /\ \E m1, m2 \in Mtimes :
       files = [p \in {Join(WatchDir, nATxt), Join(WatchDir, nCXyz)} |->
                  [content |-> 1, size |-> 1,
                   mtime |-> IF p = Join(WatchDir, nATxt) THEN m1 ELSE m2]]
  /\ dirs = {<< >>, WatchDir}
  /\ stats = [moved |-> 0, skipped |-> 0, errors |-> 0]
  /\ call = [t \in Threads |-> IdleCall]
  /\ hist = [t \in Threads |-> NoHist]
  /\ runpc = "idle"
  /\ todo = << >>
  /\ pending = {}
  /\ ops = 0
  /\ created = 0
  /\ WatcherIdle

PathNext == target_path_of

PathSpec == PathInit /\ [][PathNext]_vars

\* --------------------------------------------- _handle_duplicate on its own
MaxSuffix == 3

DocumentsDir == <<cO, cDocuments>>
Numbered(stem, k, suffix) == stem \o <<"_">> \o Str(k) \o suffix
\* the names that may be taken in the target folder: a.txt, a_1.txt ...
\* a_<MaxSuffix>.txt, and a_1_1.txt
DupNames ==
  {nATxt, Numbered(<<"a","_","1">>, 1, eTxt)}
    \cup {Numbered(<<"a">>, k, eTxt) : k \in 1..MaxSuffix}
DupTargets == {Join(DocumentsDir, nATxt), Join(DocumentsDir, nA1Txt)}

\* _handle_duplicate applied to a target path
resolve_duplicate ==
  /\ \E target_path \in DupTargets :
       hist' = [hist EXCEPT !["main"] =
         [NoHist EXCEPT !.phase = "done", !.dest = target_path,
                        !.destExisted = PathExists(files, dirs, target_path),
                        !.target_path = handle_duplicate(files, dirs, config, target_path)]]
  /\ UNCHANGED <<config, files, dirs, stats, call, runpc, todo, pending, ops, created>>
  /\ UNCHANGED watch
  /\ UNCHANGED life

DupInit ==
  /\ config \in {[BaseConfig EXCEPT !.duplicate_handling = d] :
                   d \in {"rename", "skip", "overwrite"}}
  /\ \E taken \in SUBSET DupNames :
       files = [p \in {Join(DocumentsDir, n) : n \in taken} |->
                  [content |-> 1, size |-> 1, mtime |-> [year |-> 2024, month |-> 3]]]
  /\ dirs = {<< >>, <<cO>>, DocumentsDir}
  /\ stats = [moved |-> 0, skipped |-> 0, errors |-> 0]
  /\ call = [t \in Threads |-> IdleCall]
  /\ hist = [t \in Threads |-> NoHist]
  /\ runpc = "idle"
  /\ todo = << >>
  /\ pending = {}
  /\ ops = 0
  /\ created = 0
  /\ WatcherIdle

DupNext == resolve_duplicate

DupSpec == DupInit /\ [][DupNext]_vars

\* ------------------------------------------------- watch: FileOrganizerHandler
MaxEvents == 3
MaxWrites == 2

\* FileWatcher.start gives every watch directory an observer of its own, all
\* of them calling one handler: the n-th observer watches the n-th directory
Watched(t) == config.watch_directories[IF t = "obs1" THEN 1 ELSE 2]

nPart == <<"a",".","p","a","r","t">>

\* the events the observer t may deliver: for a file of its directory or for
\* its subdirectory
CreatedEvents(t) ==
  {[src_path |-> Join(Watched(t), n), dest_path |-> NoPath, is_directory |-> FALSE] :
     n \in WatchNames}
    \cup {[src_path |-> Join(Watched(t), cSub), dest_path |-> NoPath, is_directory |-> TRUE]}
MovedEvents(t) ==
  {[src_path |-> Join(Watched(t), nPart), dest_path |-> Join(Watched(t), n),
    is_directory |-> FALSE] : n \in WatchNames}
    \cup {[src_path |-> Join(Watched(t), cV), dest_path |-> Join(Watched(t), cSub),
           is_directory |-> TRUE]}

\* (mutant) an event is dropped while any path is in flight
process_file_DropsWhenBusy(t, file_path) ==
  /\ last_event' = [observer |-> t, file_path |-> file_path]
  /\ wpath' = [wpath EXCEPT ![t] = file_path]
  /\ UNCHANGED timers
  /\ IF processing_files # {}
     THEN UNCHANGED <<wpc, probe>>
     ELSE /\ wpc' = [wpc EXCEPT ![t] = "add"]
          /\ probe' = [probe EXCEPT ![t] = NoProbe]

\* (mutant) the check for a path in flight stands inside the try block, so
\* that the finally clause schedules a release for a dropped event too
process_file_ReleasesDropped(t, file_path) ==
  /\ last_event' = [observer |-> t, file_path |-> file_path]
  /\ wpath' = [wpath EXCEPT ![t] = file_path]
  /\ IF file_path \in processing_files
     THEN /\ timers' = [timers EXCEPT ![file_path] = @ + 1]
          /\ UNCHANGED <<wpc, probe>>
     ELSE /\ wpc' = [wpc EXCEPT ![t] = "add"]
          /\ probe' = [probe EXCEPT ![t] = NoProbe]
          /\ UNCHANGED timers

\* _process_file, its first statement: an event for a path in flight is
\* dropped before the try block is entered
process_file(t, file_path) ==
  /\ last_event' = [observer |-> t, file_path |-> file_path]
  /\ wpath' = [wpath EXCEPT ![t] = file_path]
  /\ UNCHANGED timers
  /\ IF file_path \in processing_files
     THEN UNCHANGED <<wpc, probe>>
     ELSE /\ wpc' = [wpc EXCEPT ![t] = "add"]
          /\ probe' = [probe EXCEPT ![t] = NoProbe]

on_created(t) ==
  /\ wpc[t] = "idle" /\ events < MaxEvents
  /\ events' = events + 1
  /\ \E event \in CreatedEvents(t) :
       IF event.is_directory
       THEN /\ last_event' = [observer |-> t, file_path |-> NoPath]
            /\ UNCHANGED <<wpc, wpath, probe, timers>>
       ELSE process_file(t, event.src_path)
  /\ UNCHANGED <<config, files, dirs, stats, call, hist>>
  /\ UNCHANGED <<processing_files, initial_size, written, track>>
  /\ UNCHANGED batch
  /\ UNCHANGED life

\* (mutant) the path a move event is probed at is the one the file has left
on_moved_ProbesSource(t) ==
  /\ wpc[t] = "idle" /\ events < MaxEvents
  /\ events' = events + 1
  /\ \E event \in MovedEvents(t) :
       IF event.is_directory
       THEN /\ last_event' = [observer |-> t, file_path |-> NoPath]
            /\ UNCHANGED <<wpc, wpath, probe, timers>>
       ELSE process_file(t, event.src_path)
  /\ UNCHANGED <<config, files, dirs, stats, call, hist>>
  /\ UNCHANGED <<processing_files, initial_size, written, track>>
  /\ UNCHANGED batch
  /\ UNCHANGED life

on_moved(t) ==
  /\ wpc[t] = "idle" /\ events < MaxEvents
  /\ events' = events + 1
  /\ \E event \in MovedEvents(t) :
       IF event.is_directory
       THEN /\ last_event' = [observer |-> t, file_path |-> NoPath]
            /\ UNCHANGED <<wpc, wpath, probe, timers>>
       ELSE process_file(t, event.dest_path)
  /\ UNCHANGED <<config, files, dirs, stats, call, hist>>
  /\ UNCHANGED <<processing_files, initial_size, written, track>>
  /\ UNCHANGED batch
  /\ UNCHANGED life

\* _process_file, line 52: the path enters processing_files
process_file_add(t) ==
  /\ wpc[t] = "add"
  /\ processing_files' = processing_files \cup {wpath[t]}
  /\ wpc' = [wpc EXCEPT ![t] = "probe1"]
  /\ track' = [track EXCEPT
       ![wpath[t]].calls = IF wpath[t] \in processing_files THEN @ ELSE 0,
       ![wpath[t]].retry = IF @ = "rejected" THEN "retrying" ELSE @]
  /\ UNCHANGED <<config, files, dirs, stats, call, hist>>
  /\ UNCHANGED <<wpath, initial_size, timers, events, last_event, written, probe>>
  /\ UNCHANGED batch
  /\ UNCHANGED life

\* (mutant) the release is scheduled only after a call of organize_file
Finally_OnlyAfterOrganize(t, pr) ==
  /\ wpc' = [wpc EXCEPT ![t] = "idle"]
  /\ initial_size' = [initial_size EXCEPT ![t] = 0]
  /\ timers' = [timers EXCEPT ![wpath[t]] = IF pr.verdict = "forwarded" THEN @ + 1 ELSE @]
  /\ probe' = [probe EXCEPT ![t] = pr]

\* (mutant) the release is scheduled at the end of the try block, which an
\* exception does not reach
Finally_NotAfterError(t, pr) ==
  /\ wpc' = [wpc EXCEPT ![t] = "idle"]
  /\ initial_size' = [initial_size EXCEPT ![t] = 0]
  /\ timers' = [timers EXCEPT ![wpath[t]] = IF pr.verdict = "error" THEN @ ELSE @ + 1]
  /\ probe' = [probe EXCEPT ![t] = pr]

\* the finally clause: _process_file returns and a thread is started that
\* will release the path; pr is what the probes of the call have seen
Finally(t, pr) ==
  /\ wpc' = [wpc EXCEPT ![t] = "idle"]
  /\ initial_size' = [initial_size EXCEPT ![t] = 0]
  /\ timers' = [timers EXCEPT ![wpath[t]] = @ + 1]
  /\ probe' = [probe EXCEPT ![t] = pr]

\* the verdict of a probe sequence that does not reach organize_file, as the
\* path's way to a retry
Unplaced(tr, verdict) ==
  [tr EXCEPT !.retry = IF verdict = "writing" THEN "rejected"
                       ELSE IF @ = "retrying" THEN "no" ELSE @]

\* _process_file after the first sleep: the file must exist, and its size is
\* read; exists_fault is exists() raising (an OSError it does not take for
\* "no such file"), stat_fault is stat() raising
process_file_probe1(t) ==
  /\ wpc[t] = "probe1"
  /\ LET file_path == wpath[t]
     IN \E exists_fault \in BOOLEAN : \E stat_fault \in BOOLEAN :
          IF exists_fault
          THEN /\ Finally(t, [probe[t] EXCEPT !.verdict = "error"])
               /\ track' = [track EXCEPT ![file_path] = Unplaced(@, "error")]
          ELSE IF ~PathExists(files, dirs, file_path)
          THEN /\ Finally(t, [probe[t] EXCEPT !.verdict = "vanished"])
               /\ track' = [track EXCEPT ![file_path] = Unplaced(@, "vanished")]
          ELSE IF stat_fault
          THEN /\ Finally(t, [probe[t] EXCEPT !.e1 = TRUE, !.verdict = "error"])
               /\ track' = [track EXCEPT ![file_path] = Unplaced(@, "error")]
          ELSE /\ initial_size' = [initial_size EXCEPT ![t] = files[file_path].size]
               /\ wpc' = [wpc EXCEPT ![t] = "probe2"]
               /\ probe' = [probe EXCEPT ![t] =
                    [@ EXCEPT !.e1 = TRUE, !.s1 = files[file_path].size]]
               /\ UNCHANGED <<timers, track>>
  /\ UNCHANGED <<config, files, dirs, stats, call, hist>>
  /\ UNCHANGED <<processing_files, wpath, events, last_event, written>>
  /\ UNCHANGED batch
  /\ UNCHANGED life

\* (mutant) every file is taken to be still written
StillWriting_Always(initial, current) == TRUE

\* (mutant) the sizes of the two probes are not compared
StillWriting_Never(initial, current) == FALSE

\* lines 69-72: the size has changed between the probes
StillWriting(initial, current) == initial # current

\* _process_file after the second sleep: the file must still exist with the
\* size it had, and is then handed to organize_file; exists_fault and
\* stat_fault are exists() and stat() raising, fault is an exception the file
\* system raises in organize_file
process_file_probe2(t) ==
  /\ wpc[t] = "probe2"
  /\ LET file_path == wpath[t]
         seen(verdict) ==
           [probe[t] EXCEPT !.e2 = PathExists(files, dirs, file_path),
                            !.s2 = IF verdict \in {"writing", "forwarded"}
                                   THEN files[file_path].size ELSE 0,
                            !.verdict = verdict]
         rejected(verdict) ==
           /\ Finally(t, seen(verdict))
           /\ track' = [track EXCEPT ![file_path] = Unplaced(@, verdict)]
           /\ UNCHANGED <<files, dirs, stats, call, hist>>
     IN \E exists_fault \in BOOLEAN : \E stat_fault \in BOOLEAN : \E fault \in Faults :
          IF exists_fault
          THEN /\ Finally(t, [probe[t] EXCEPT !.verdict = "error"])
               /\ track' = [track EXCEPT ![file_path] = Unplaced(@, "error")]
               /\ UNCHANGED <<files, dirs, stats, call, hist>>
          ELSE IF ~PathExists(files, dirs, file_path) THEN rejected("vanished")
          ELSE IF stat_fault THEN rejected("error")
          ELSE IF StillWriting(initial_size[t], files[file_path].size)
          THEN rejected("writing")
          ELSE /\ organize_file_begin(t, file_path, fault)
               /\ track' = [track EXCEPT
                    ![file_path].calls = @ + 1,
                    ![file_path].retry = IF @ = "retrying" THEN "placed" ELSE "no"]
               /\ IF IsDir(dirs, file_path)
                  THEN Finally(t, seen("forwarded"))
                  ELSE /\ wpc' = [wpc EXCEPT ![t] = "organize"]
                       /\ probe' = [probe EXCEPT ![t] = seen("forwarded")]
                       /\ UNCHANGED <<initial_size, timers>>
  /\ UNCHANGED <<config, processing_files, wpath, events, last_event, written>>
  /\ UNCHANGED batch
  /\ UNCHANGED life

\* organize_file, called by _process_file, moves the file
process_file_organize(t) ==
  /\ wpc[t] = "organize"
  /\ \E fault \in Faults : organize_file_end(t, fault)
  /\ UNCHANGED <<config, processing_files, wpc, wpath, initial_size, timers, events,
                 last_event, written, probe, track>>
  /\ UNCHANGED batch
  /\ UNCHANGED life

\* organize_file writes the counter and returns, and _process_file with it
process_file_count(t) ==
  /\ wpc[t] = "organize"
  /\ organize_file_count(t)
  /\ Finally(t, probe[t])
  /\ UNCHANGED <<config, processing_files, wpath, events, last_event, written, track>>
  /\ UNCHANGED batch
  /\ UNCHANGED life

\* remove_from_processing: five seconds after a _process_file call has
\* returned its path leaves processing_files
remove_from_processing(p) ==
  /\ timers[p] > 0
  /\ timers' = [timers EXCEPT ![p] = @ - 1]
  /\ processing_files' = processing_files \ {p}
  /\ UNCHANGED <<config, files, dirs, stats, call, hist>>
  /\ UNCHANGED <<wpc, wpath, initial_size, events, last_event, written, probe, track>>
  /\ UNCHANGED batch
  /\ UNCHANGED life

\* ---------------------------------------------- watch: the watched files
\* the paths events are delivered for under the configuration
EventPaths == UNION {{e.src_path : e \in {c \in CreatedEvents(t) : ~c.is_directory}} : t \in Observers}

\* somebody writes to a watched file: a missing file appears with one block,
\* a present one grows by a block
write_file ==
  /\ written < MaxWrites
  /\ \A t \in Observers : call[t].pc = "none"
  /\ written' = written + 1
  /\ \E q \in EventPaths :
       /\ q \notin dirs
       /\ files' = [p \in DOMAIN files \cup {q} |->
                      IF p # q THEN files[p]
                      ELSE IF q \in DOMAIN files
                      THEN [files[q] EXCEPT !.size = @ + 1]
                      ELSE [content |-> written + 1, size |-> 1,
                            mtime |-> [year |-> 2024, month |-> 3]]]
  /\ UNCHANGED <<config, dirs, stats, call, hist>>
  /\ UNCHANGED <<processing_files, wpc, wpath, initial_size, timers, events, last_event,
                 probe, track>>
  /\ UNCHANGED batch
  /\ UNCHANGED life

\* somebody removes a watched file
remove_file ==
  /\ \A t \in Observers : call[t].pc = "none"
  /\ \E q \in EventPaths \cap DOMAIN files :
       files' = [p \in DOMAIN files \ {q} |-> files[p]]
  /\ UNCHANGED <<config, dirs, stats, call, hist>>
  /\ UNCHANGED watch
  /\ UNCHANGED batch
  /\ UNCHANGED life

\* ------------------------------------------------- watch: specification
\* two watch directories, or one directory listed twice
WatchConfigs ==
  {[BaseConfig EXCEPT !.watch_directories = w] :
     w \in {<<WatchDir, OtherDir>>, <<WatchDir, WatchDir>>}}

WatchInit ==
  /\ config \in WatchConfigs
  /\ files = << >>
  /\ dirs = {<< >>, WatchDir, OtherDir}
  /\ stats = [moved |-> 0, skipped |-> 0, errors |-> 0]
  /\ call = [t \in Threads |-> IdleCall]
  /\ hist = [t \in Threads |-> NoHist]
  /\ runpc = "idle"
  /\ todo = << >>
  /\ pending = {}
  /\ ops = 0
  /\ created = 0
  /\ WatcherIdle

Handler(t) ==
  \/ on_created(t)
  \/ on_moved(t)
  \/ process_file_add(t)
  \/ process_file_probe1(t)
  \/ process_file_probe2(t)
  \/ process_file_organize(t)
  \/ process_file_count(t)

WatchNext ==
  \/ \E t \in Observers : Handler(t)
  \/ \E p \in WatchPaths : remove_from_processing(p)
  \/ write_file
  \/ remove_file

WatchSpec == WatchInit /\ [][WatchNext]_vars

\* a thread that has accepted an event runs on to the end of _process_file:
\* in every position but "idle" its next statement can be executed, and the
\* thread is scheduled. Step(t) is that next statement seen on wpc alone.
Step(t) ==
  /\ wpc[t] # "idle"
  /\ \E pc \in {"probe1", "probe2", "organize", "idle"} :
       wpc' = [wpc EXCEPT ![t] = pc]

\* the threads run on, and a release thread wakes after its five seconds
FairWatchSpec ==
  /\ WatchSpec
  /\ \A t \in Observers : WF_wpc(Step(t))
  /\ \A p \in WatchPaths : WF_vars(remove_from_processing(p))

\* ------------------------------------------------- watch session: FileWatcher
\* the paths a configuration lists as watch directories: two directories, a
\* regular file and a path that does not exist
aFile == Join(WatchDir, nATxt)
Missing == <<cO>>
SessionPaths == {WatchDir, OtherDir, aFile, Missing}

SessionConfigs ==
  {[BaseConfig EXCEPT !.watch_directories = w] :
     w \in UNION {[1..n -> SessionPaths] : n \in 0..MaxDirs}}

\* the rest of the state, which the watch session leaves alone
SessionFrame ==
  /\ UNCHANGED <<config, files, dirs, stats, call, hist>>
  /\ UNCHANGED batch
  /\ UNCHANGED watch

\* run() calls start(): without a watch directory the process exits
start ==
  /\ spc = "init"
  /\ IF config.watch_directories = << >>
     THEN spc' = "exited" /\ exit_status' = 1 /\ UNCHANGED sidx
     ELSE spc' = "for" /\ sidx' = 1 /\ UNCHANGED exit_status
  /\ UNCHANGED <<observers, othread, caught>>
  /\ SessionFrame

\* (mutant) an observer is started whether the path exists or not
start_observer_Unvalidated ==
  /\ spc = "for" /\ sidx <= Len(config.watch_directories)
  /\ \E fault \in BOOLEAN :
       IF fault
       THEN /\ caught' = "Exception" /\ spc' = "stop" /\ sidx' = 1
            /\ UNCHANGED othread
       ELSE /\ othread' = [othread EXCEPT ![sidx] = "running"]
            /\ spc' = "append"
            /\ UNCHANGED <<sidx, caught>>
  /\ UNCHANGED <<observers, exit_status>>
  /\ SessionFrame

\* one turn of the for loop of start() up to observer.start(): a path that
\* does not exist is passed over; fault is Observer(), schedule() or start()
\* raising, which the except clause of run() catches
start_observer ==
  /\ spc = "for" /\ sidx <= Len(config.watch_directories)
  /\ \E fault \in BOOLEAN :
       IF ~PathExists(files, dirs, config.watch_directories[sidx])
       THEN /\ sidx' = sidx + 1
            /\ UNCHANGED <<othread, spc, caught>>
       ELSE IF fault
       THEN /\ caught' = "Exception" /\ spc' = "stop" /\ sidx' = 1
            /\ UNCHANGED othread
       ELSE /\ othread' = [othread EXCEPT ![sidx] = "running"]
            /\ spc' = "append"
            /\ UNCHANGED <<sidx, caught>>
  /\ UNCHANGED <<observers, exit_status>>
  /\ SessionFrame

\* self.observers.append(observer), and the loop goes on
start_append ==
  /\ spc = "append"
  /\ observers' = Append(observers, sidx)
  /\ sidx' = sidx + 1
  /\ spc' = "for"
  /\ UNCHANGED <<othread, caught, exit_status>>
  /\ SessionFrame

\* the end of start(): with no observer the process exits, otherwise run()
\* enters its loop of sleeps
start_done ==
  /\ spc = "for" /\ sidx > Len(config.watch_directories)
  /\ IF observers = << >>
     THEN spc' = "exited" /\ exit_status' = 1
     ELSE spc' = "blocked" /\ UNCHANGED exit_status
  /\ UNCHANGED <<observers, othread, sidx, caught>>
  /\ SessionFrame

\* the interrupt signal: KeyboardInterrupt is raised in the main thread at the
\* statement it is executing inside the try block of run(), and the except
\* clause calls stop()
KeyboardInterrupt ==
  /\ spc \in {"for", "append", "blocked"}
  /\ caught' = "KeyboardInterrupt"
  /\ spc' = "stop"
  /\ sidx' = 1
  /\ UNCHANGED <<observers, othread, exit_status>>
  /\ SessionFrame

\* (mutant) an exception in the loop ends the process without stop()
sleep_raises_NoStop ==
  /\ spc = "blocked"
  /\ caught' = "Exception"
  /\ spc' = "exited"
  /\ exit_status' = 1
  /\ UNCHANGED <<observers, othread, sidx>>
  /\ SessionFrame

\* an exception raised while run() is blocked in its loop: the except clause
\* calls stop()
sleep_raises ==
  /\ spc = "blocked"
  /\ caught' = "Exception"
  /\ spc' = "stop"
  /\ sidx' = 1
  /\ UNCHANGED <<observers, othread, exit_status>>
  /\ SessionFrame

\* stop(): observer.stop() for the next observer of self.observers
stop_observer ==
  /\ spc = "stop" /\ sidx <= Len(observers)
  /\ othread' = [othread EXCEPT ![observers[sidx]] = "stopped"]
  /\ spc' = "join"
  /\ UNCHANGED <<observers, sidx, caught, exit_status>>
  /\ SessionFrame

\* stop(): observer.join() returns when the observer's thread has ended
join_observer ==
  /\ spc = "join"
  /\ othread' = [othread EXCEPT ![observers[sidx]] = "joined"]
  /\ sidx' = sidx + 1
  /\ spc' = "stop"
  /\ UNCHANGED <<observers, caught, exit_status>>
  /\ SessionFrame

\* stop() returns to the except clause: after an interrupt run() returns,
\* after an exception the process exits with status 1
stop_done ==
  /\ spc = "stop" /\ sidx > Len(observers)
  /\ IF caught = "Exception"
     THEN spc' = "exited" /\ exit_status' = 1
     ELSE spc' = "returned" /\ UNCHANGED exit_status
  /\ UNCHANGED <<observers, othread, sidx, caught>>
  /\ SessionFrame

SessionInit ==
  /\ config \in SessionConfigs
  /\ files = [p \in {aFile} |-> [content |-> 1, size |-> 1, mtime |-> [year |-> 2024, month |-> 3]]]
  /\ dirs = {<< >>, WatchDir, OtherDir}
  /\ stats = [moved |-> 0, skipped |-> 0, errors |-> 0]
  /\ call = [t \in Threads |-> IdleCall]
  /\ hist = [t \in Threads |-> NoHist]
  /\ runpc = "idle"
  /\ todo = << >>
  /\ pending = {}
  /\ ops = 0
  /\ created = 0
  /\ WatcherIdle

SessionNext ==
  \/ start
  \/ start_observer
  \/ start_append
  \/ start_done
  \/ KeyboardInterrupt
  \/ sleep_raises
  \/ stop_observer
  \/ join_observer
  \/ stop_done

SessionSpec == SessionInit /\ [][SessionNext]_vars

\* ============================================================ the claims
\* the folders files are placed into: the configured target folders and the
\* Extras folder
TargetFolders(cfg) ==
  {cfg.organize_rules[i].target_folder : i \in 1..Len(cfg.organize_rules)}
    \cup {BaseFolder(cfg, "Extras")}
InTargetFolder(cfg, p) == \E d \in TargetFolders(cfg) : IsStrictPrefix(d, p)

\* a step in which the main thread enters organize_file, and the path it is
\* called on
OrganizeFileCalled == organize_next \/ organize_file
CalledPath == hist'["main"].file_path
\* a step in which the main thread's organize_file moves (or, in dry-run
\* mode, logs) and returns
OrganizeFileMoves == call["main"].pc = "move" /\ call'["main"].pc = "none"

\* C1 (as claimed): under the Rename policy no step of the organizer
\* overwrites or removes a file that is in a target folder: every file
\* present in a target folder before the step is present with the same
\* content after it.
C1_RenameNeverOverwritesOrRemoves ==
  [][(config.duplicate_handling = "rename" /\ (OrganizeFileCalled \/ OrganizeFileMoves))
       => \A p \in DOMAIN files :
            InTargetFolder(config, p) => p \in DOMAIN files' /\ files'[p] = files[p]]_vars

\* C6 (as claimed): with policy Overwrite, a move whose destination already
\* existed ends with the destination holding the moved file's content, the
\* source path gone, and moved incremented by one.
C6_OverwriteReplacesDestination ==
  [][(/\ OrganizeFileMoves
      /\ config.duplicate_handling = "overwrite" /\ ~config.dry_run
      /\ hist["main"].destExisted
      /\ hist'["main"].raised = None)
       => LET src == call["main"].file_path
              dst == call["main"].target_path
          IN /\ dst \in DOMAIN files'
             /\ files'[dst].content = files[src].content
             /\ src \notin DOMAIN files'
             /\ stats' = Bump(stats, "moved")]_vars

\* C7: with policy Skip, organize_file on a file whose destination exists
\* leaves the file system as it is, increments skipped by one, leaves moved
\* and errors unchanged and returns False.
C7_SkipLeavesEverything ==
  [][(/\ OrganizeFileCalled
      /\ config.duplicate_handling = "skip"
      /\ ~IsDir(dirs, CalledPath)
      /\ get_file_category(config, CalledPath) # None
      /\ hist'["main"].raised = None
      /\ LET tp == get_target_path(files, dirs, config, CalledPath,
                                   get_file_category(config, CalledPath))
         IN tp.raised = None /\ PathExists(files, dirs, tp.path))
       => /\ files' = files /\ dirs' = dirs
          /\ stats' = Bump(stats, "skipped")
          /\ call'["main"].pc = "none"
          /\ hist'["main"].phase = "done" /\ ~hist'["main"].returned]_vars

C7_Witness ==
  /\ config.duplicate_handling = "skip"
  /\ hist["main"].phase = "done" /\ hist["main"].outcome = "duplicate"
  /\ hist["main"].destExisted
  /\ hist["main"].file_path \in DOMAIN files
  /\ hist["main"].dest \in DOMAIN files
  /\ files[hist["main"].dest].content # files[hist["main"].file_path].content
  /\ stats.skipped = 1

\* C9: a file whose lower-cased extension is in ignore_extensions or whose
\* name is in ignore_files is classified None, also when a configured
\* category lists its extension, and organize_file on it increments skipped
\* by one and changes nothing on the file system.
Ignored(cfg, p) ==
  \/ Lower(Suffix(Name(p))) \in cfg.ignore_extensions
  \/ Name(p) \in cfg.ignore_files

C9_IgnoredIsSkipped ==
  [][(OrganizeFileCalled /\ ~IsDir(dirs, CalledPath) /\ Ignored(config, CalledPath))
       => /\ hist'["main"].category = None
          /\ hist'["main"].phase = "done" /\ ~hist'["main"].returned
          /\ stats' = Bump(stats, "skipped")
          /\ files' = files /\ dirs' = dirs]_vars

\* an ignored extension that a category lists as well, and an ignored name
C9_Witness ==
  /\ hist["main"].phase = "done" /\ hist["main"].outcome = "ignored"
  /\ hist["main"].file_path \in DOMAIN files
  /\ stats = [moved |-> 0, skipped |-> 1, errors |-> 0]
  /\ \E i \in 1..Len(config.organize_rules) :
       Lower(Suffix(Name(hist["main"].file_path))) \in config.organize_rules[i].extensions

\* C8: _handle_duplicate returns a free destination unchanged, whatever the
\* policy; under Rename an occupied destination <stem><ext> yields
\* <stem>_k<ext> for the smallest k >= 1 whose name is free, the suffix being
\* attached to the stem of the original destination.
C8_Candidate(dest, k) ==
  Join(Parent(dest), Numbered(Stem(Name(dest)), k, Suffix(Name(dest))))
C8_FreeSuffixes(dest) ==
  {k \in 1..(Cardinality(DOMAIN files) + 1) :
     ~PathExists(files, dirs, C8_Candidate(dest, k))}

C8_RenameSmallestFree ==
  LET h == hist["main"]
  IN h.phase = "done" =>
       /\ ~PathExists(files, dirs, h.dest) => h.target_path = h.dest
       /\ (PathExists(files, dirs, h.dest) /\ config.duplicate_handling = "rename")
            => h.target_path = C8_Candidate(h.dest, SetMin(C8_FreeSuffixes(h.dest)))

\* a.txt and a_1.txt are taken, a_2.txt is free and is the answer
C8_Witness ==
  /\ config.duplicate_handling = "rename"
  /\ hist["main"].phase = "done"
  /\ hist["main"].dest = Join(DocumentsDir, nATxt)
  /\ Join(DocumentsDir, nATxt) \in DOMAIN files
  /\ Join(DocumentsDir, nA1Txt) \in DOMAIN files
  /\ hist["main"].target_path = Join(DocumentsDir, <<"a","_","2",".","t","x","t">>)

\* C10: a file that is not ignored is classified into the first category, in
\* the configured order, whose extensions contain the file's lower-cased
\* extension, and into "Extras" exactly when no category contains it.
C10_Matching(cfg, p) ==
  {i \in 1..Len(cfg.organize_rules) :
     Lower(Suffix(Name(p))) \in cfg.organize_rules[i].extensions}

C10_FirstMatchWins ==
  LET h == hist["main"]
      M == C10_Matching(config, h.file_path)
  IN (h.phase = "done" /\ ~Ignored(config, h.file_path)) =>
       /\ M # {} => h.category = config.organize_rules[SetMin(M)].name
       /\ M = {} <=> h.category = "Extras"

\* b.TXT goes to the first of two categories that list .txt, the one that is
\* second in the configuration
C10_Witness ==
  /\ hist["main"].phase = "done"
  /\ Name(hist["main"].file_path) = nBTXT
  /\ Len(config.organize_rules) = 3
  /\ C10_Matching(config, hist["main"].file_path) = {2, 3}
  /\ hist["main"].category = config.organize_rules[2].name


\* ------------------------------------------------------------- the watcher
\* the event delivered in this step went to observer t and named the file p
Delivered(t, p) ==
  events' = events + 1 /\ last_event' = [observer |-> t, file_path |-> p]

\* C2: two events for one path that reach the handler before the first probe
\* sequence has completed lead to one call of organize_file: between the
\* moment a path enters processing_files and the next such moment
\* organize_file is called for it at most once.
C2_OnePlacementPerAcceptance ==
  \A p \in WatchPaths : track[p].calls <= 1

\* C3: an observer thread hands a path to organize_file only if the file
\* existed at the first probe, existed at the second, and had the same size at
\* both.
C3_ForwardedOnlyIfStable ==
  \A t \in Observers :
    probe[t].verdict = "forwarded" =>
      probe[t].e1 /\ probe[t].e2 /\ probe[t].s1 = probe[t].s2

\* a file that had grown is forwarded once its size stands still, and moved
C3_Witness ==
  \E t \in Observers :
    /\ probe[t].verdict = "forwarded"
    /\ probe[t].s1 = 2 /\ probe[t].s2 = 2
    /\ hist[t].outcome = "moved" /\ hist[t].file_path = wpath[t]

\* C4: a path in processing_files eventually leaves it, whatever the end of
\* its probe sequence was, so that the check of _process_file lets a later
\* event for it pass.
C4_EntryEventuallyReleased ==
  \A p \in WatchPaths : (p \in processing_files) ~> (p \notin processing_files)

\* a probe sequence that ended in a probing error has had its path released,
\* and a later event for the path has been accepted
C4_Witness ==
  \E t, u \in Observers :
    /\ probe[t].verdict = "error" /\ wpc[t] = "idle"
    /\ wpath[u] = wpath[t] /\ wpc[u] = "add"
    /\ wpath[t] \notin processing_files /\ timers[wpath[t]] = 0

\* C5 as stated: every later event for a path that was rejected as still
\* being written starts a new probe sequence.
C5_LaterEventRetried ==
  [][\A t \in Observers : \A p \in WatchPaths :
       (Delivered(t, p) /\ track[p].retry = "rejected")
         => (wpc'[t] = "add" /\ wpath'[t] = p)]_vars

\* C5 amended: an event for a path that was rejected as still being written
\* starts a new probe sequence if it arrives after the path has left
\* processing_files, and that sequence hands the file to organize_file if the
\* file exists with one size at both probes and no probe raises.
C5_EventAfterReleaseRetried ==
  [][\A t \in Observers : \A p \in WatchPaths :
       /\ (Delivered(t, p) /\ track[p].retry = "rejected" /\ p \notin processing_files)
            => (wpc'[t] = "add" /\ wpath'[t] = p)
       /\ ( /\ wpc[t] = "probe2" /\ wpc'[t] # "probe2" /\ wpath[t] = p
            /\ track[p].retry = "retrying"
            /\ p \in DOMAIN files /\ files[p].size = probe[t].s1
            /\ probe'[t].verdict # "error" )
            => ( /\ probe'[t].verdict = "forwarded"
                 /\ hist'[t].phase # "none" /\ hist'[t].file_path = p )]_vars

\* a file rejected as still being written has been accepted again on a later
\* event, found stable and moved
C5_Witness ==
  \E t \in Observers : \E p \in WatchPaths :
    /\ track[p].retry = "placed"
    /\ hist[t].file_path = p /\ hist[t].outcome = "moved"
    /\ p \notin DOMAIN files

\* --------------------------------------- organize_file: skips and failures
\* C11 (as claimed): organize_file on a directory returns False, increments
\* skipped by one and leaves moved, errors and the file system unchanged.
C11_DirectoryCountsAsSkipped ==
  [][(OrganizeFileCalled /\ IsDir(dirs, CalledPath))
       => /\ hist'["main"].phase = "done" /\ ~hist'["main"].returned
          /\ stats' = Bump(stats, "skipped")
          /\ files' = files /\ dirs' = dirs]_vars

\* C12 (as claimed): an organize_file call of the batch on a file that has
\* vanished since it was enumerated does not increment errors, in no step of
\* the call (no exception other than the one of the missing file is raised).
C12_VanishedIsNotAnError ==
  [][(/\ runpc = "files" /\ (organize_next \/ OrganizeFileMoves)
      /\ ~PathExists(files, dirs, hist'["main"].file_path)
      /\ hist'["main"].raised \in {None, "FileNotFoundError"})
       => stats'.errors = stats.errors]_vars

\* C13: an organize_file call in which a step fails, the move or an earlier
\* one, with a PermissionError or with any other exception, returns False
\* and increments errors by one and no other counter; up to the failure the
\* call has changed no counter.
C13_FailureIsCountedOnce ==
  [][/\ ((OrganizeFileCalled \/ OrganizeFileMoves) /\ hist'["main"].raised # None)
          => /\ hist'["main"].phase = "done" /\ call'["main"].pc = "none"
             /\ ~hist'["main"].returned
             /\ stats' = Bump(stats, "errors")
     /\ (OrganizeFileCalled /\ call'["main"].pc = "move") => stats' = stats]_vars

\* a move that failed with a PermissionError: the file is where it was and
\* errors is the only counter that has moved
C13_Witness ==
  /\ hist["main"].phase = "done" /\ hist["main"].raised = "PermissionError"
  /\ hist["main"].target_path # NoPath
  /\ hist["main"].file_path \in DOMAIN files
  /\ stats = [moved |-> 0, skipped |-> 0, errors |-> 1]

\* ------------------------------------------------- organize_directory, run
\* C14: the loop of organize_directory calls organize_file for every file of
\* its list, whatever the earlier calls returned: the list shrinks only by
\* the file organize_file is called on, and the loop is left only with the
\* list empty; run() passes every watch directory in turn and returns only
\* after the last.
C14_BatchIsNotAborted ==
  [][/\ (runpc = "files" /\ pending' # pending)
          => \E f \in pending :
               /\ pending' = pending \ {f}
               /\ hist'["main"].phase # "none" /\ hist'["main"].file_path = f
     /\ (runpc = "files" /\ runpc' # "files") => pending = {}
     /\ (runpc # "idle" /\ todo' # todo) => todo' = Tail(todo)
     /\ (runpc # "idle" /\ runpc' = "idle") => todo' = << >>]_vars

\* one run: the file of the first watch directory ended in an error, and
\* the file of the last watch directory has been moved after it
C14_Witness ==
  /\ config.watch_directories = WatchDirsMixed
  /\ ops = 1 /\ runpc = "idle"
  /\ stats = [moved |-> 1, skipped |-> 0, errors |-> 1]
  /\ Join(SubDir, nATxt) \in DOMAIN files
  /\ hist["main"].outcome = "moved"
  /\ Parent(hist["main"].file_path) = WatchDir

\* C15: in dry-run mode organize_file on a file that reaches the move
\* returns True and increments moved by one; no step of the call changes a
\* regular file, and the only directories it adds are the destination
\* folder and its ancestors.
C15_DryRunTouchesNoFile ==
  [][config.dry_run =>
       /\ OrganizeFileMoves
            => /\ hist'["main"].returned /\ hist'["main"].outcome = "dryrun"
               /\ stats' = Bump(stats, "moved")
               /\ files' = files /\ dirs' = dirs
       /\ OrganizeFileCalled
            => /\ files' = files
               /\ dirs \subseteq dirs'
               /\ \A d \in dirs' \ dirs : IsPrefix(d, Parent(hist'["main"].dest))]_vars

\* a dry run has counted a file as moved: the file is at its source, the
\* destination folder has been made and holds no file of that name
C15_Witness ==
  /\ config.dry_run
  /\ hist["main"].phase = "done" /\ hist["main"].outcome = "dryrun"
  /\ hist["main"].returned
  /\ stats = [moved |-> 1, skipped |-> 0, errors |-> 0]
  /\ hist["main"].file_path \in DOMAIN files
  /\ Parent(hist["main"].target_path) \in dirs
  /\ hist["main"].target_path \notin DOMAIN files

\* C16: organize_directory on a path that does not exist or is a regular
\* file calls organize_file for no file, leaves the counters and the file
\* system as they are and returns: run() goes on with the next watch
\* directory, or ends if there is none.
C16_MissingDirectoryIsPassedOver ==
  [][(runpc = "dirs" /\ ~IsDir(dirs, Head(todo)))
       => /\ files' = files /\ dirs' = dirs /\ stats' = stats
          /\ hist' = hist /\ call' = call /\ pending' = pending
          /\ todo' = Tail(todo)
          /\ runpc' = IF Tail(todo) = << >> THEN "idle" ELSE "dirs"]_vars

\* run() has passed over the second entry of the watch list, a regular file,
\* and is about to scan the third
C16_Witness ==
  /\ config.watch_directories = WatchDirsMixed
  /\ runpc = "dirs" /\ todo = <<WatchDir>>
  /\ WatchDirsMixed[2] \in DOMAIN files
  /\ stats = [moved |-> 0, skipped |-> 0, errors |-> 0]

\* C17: the list organize_directory builds holds the regular files that are
\* children of the directory when recursive is off, and the regular files
\* anywhere below it when recursive is on; it holds no directory, the batch
\* calls organize_file only on members of the list, and with recursive off
\* no file of a subdirectory leaves its place during the scan.
C17_Under(d) ==
  {p \in DOMAIN files : Len(p) > Len(d) /\ \A i \in 1..Len(d) : p[i] = d[i]}

C17_EnumerationFollowsRecursive ==
  [][/\ (runpc = "dirs" /\ IsDir(dirs, Head(todo)))
          => /\ pending' = IF config.recursive THEN C17_Under(Head(todo))
                           ELSE {p \in C17_Under(Head(todo)) : Len(p) = Len(Head(todo)) + 1}
             /\ pending' \cap dirs = {}
     /\ (runpc = "files" /\ hist'["main"] # hist["main"] /\ call["main"].pc = "none")
          => hist'["main"].file_path \in pending
     /\ (runpc = "files" /\ ~config.recursive)
          => \A p \in C17_Under(Head(todo)) :
               Len(p) > Len(Head(todo)) + 1 => p \in DOMAIN files']_vars

\* a scan with recursive off: the file in the subdirectory is not in the
\* list, the file in the directory is
C17_Witness ==
  /\ ~config.recursive
  /\ runpc = "files" /\ Head(todo) = WatchDir
  /\ Join(SubDir, nATxt) \in DOMAIN files
  /\ Join(SubDir, nATxt) \notin pending
  /\ pending # {}

\* ------------------------------------------------------ _get_target_path
\* the folder of a category before date bucketing, as the claims state it
C18_ExtrasFolder(cfg) ==
  IF Len(cfg.organize_rules) = 0 THEN DefaultExtras
  ELSE LET first == cfg.organize_rules[1].target_folder
       IN SubSeq(first, 1, Len(first) - 1) \o <<cExtras>>

\* C18: for the category "Extras" the destination is the file's name in the
\* folder Extras beside the target folder of the first configured category,
\* whichever categories follow, and in the fixed default Extras folder when
\* no category is configured (below a date folder when date bucketing is on).
C18_ExtrasBesideFirstCategory ==
  LET h == hist["main"]
  IN (h.phase = "done" /\ h.category = "Extras" /\ h.raised = None) =>
       /\ h.dest[Len(h.dest)] = h.file_path[Len(h.file_path)]
       /\ SubSeq(h.dest, 1, Len(C18_ExtrasFolder(config))) = C18_ExtrasFolder(config)
       /\ Len(h.dest) = Len(C18_ExtrasFolder(config))
                          + (IF config.organize_by_date THEN 2 ELSE 1)

\* the first category has its folder under v, the others under o: Extras is
\* under v
C18_Witness ==
  /\ Len(config.organize_rules) = 3
  /\ config.organize_rules[1] = rArchives
  /\ ~config.organize_by_date
  /\ hist["main"].phase = "done" /\ hist["main"].category = "Extras"
  /\ hist["main"].dest = <<cV, cExtras, nCXyz>>
  /\ <<cV, cExtras>> \in dirs

\* the date folder of a modification time under the format %Y-%m
C19_DateFolder(mtime) ==
  IF mtime = [year |-> 2024, month |-> 3] THEN <<"2","0","2","4","-","0","3">>
  ELSE <<"2","0","2","3","-","1","1">>

C19_CategoryFolder(cfg, category) ==
  IF category = "Extras" THEN C18_ExtrasFolder(cfg)
  ELSE LET i == CHOOSE i \in 1..Len(cfg.organize_rules) :
                  cfg.organize_rules[i].name = category
       IN cfg.organize_rules[i].target_folder

\* C19: with date bucketing on, the destination is the category's folder,
\* then the folder of the file's modification time in the configured format,
\* then the file's name, for a configured category and for Extras alike;
\* with date bucketing off it is the category's folder, then the name.
C19_DateFolderIsInserted ==
  LET h == hist["main"]
      folder == C19_CategoryFolder(config, h.category)
      name == h.file_path[Len(h.file_path)]
  IN (h.phase = "done" /\ h.raised = None) =>
       h.dest = IF config.organize_by_date
                THEN folder \o <<C19_DateFolder(files[h.file_path].mtime), name>>
                ELSE folder \o <<name>>

\* a file last modified in November 2023, of no configured category
C19_Witness ==
  /\ config.organize_by_date
  /\ config.organize_rules = <<rDocuments, rArchives>>
  /\ hist["main"].phase = "done" /\ hist["main"].category = "Extras"
  /\ hist["main"].dest = <<cO, cExtras, <<"2","0","2","3","-","1","1">>, nCXyz>>
  /\ <<cO, cExtras, <<"2","0","2","3","-","1","1">>>> \in dirs

\* ------------------------------------------------- the watcher: forwarding
\* C20: a probe sequence that finds the file at both probes with one size
\* (no probe raising) calls organize_file on the path, and calls it once: a
\* thread enters organize_file only in the step of its second probe, and a
\* sequence passes its positions in their order, none of them twice.
C20_StableIsForwardedOnce ==
  [][\A t \in Observers :
       /\ ( /\ wpc[t] = "probe2" /\ wpc'[t] # "probe2"
            /\ probe[t].e1
            /\ wpath[t] \in DOMAIN files /\ files[wpath[t]].size = probe[t].s1
            /\ probe'[t].verdict # "error" )
            => /\ probe'[t].verdict = "forwarded"
               /\ hist'[t].phase # "none" /\ hist'[t].file_path = wpath[t]
               /\ wpc'[t] \in {"organize", "idle"}
       /\ (hist'[t] # hist[t] /\ call[t].pc = "none") => wpc[t] = "probe2"
       /\ (call[t].pc # "none" /\ call'[t].pc = "none") => wpc[t] = "organize"
       /\ wpc'[t] # wpc[t] =>
            <<wpc[t], wpc'[t]>> \in
              { <<"idle", "add">>, <<"add", "probe1">>, <<"probe1", "probe2">>,
                <<"probe1", "idle">>, <<"probe2", "organize">>, <<"probe2", "idle">>,
                <<"organize", "idle">> }]_vars

\* a file that never grew has been forwarded by the one event delivered for
\* it, and moved
C20_Witness ==
  \E t \in Observers :
    /\ events = 1
    /\ probe[t].verdict = "forwarded" /\ probe[t].s1 = 1 /\ probe[t].s2 = 1
    /\ wpc[t] = "idle"
    /\ track[wpath[t]].calls = 1
    /\ hist[t].file_path = wpath[t] /\ hist[t].outcome = "moved"
    /\ stats.moved = 1

\* ------------------------------------------ the watcher: errors and start-up
\* a statement of _process_file executed by the observer thread t
C21_Statement(t) == wpc[t] \in {"probe1", "probe2", "organize"} /\ wpc'[t] # wpc[t]

\* C21: an exception raised by exists() or stat() in _process_file, or an
\* error while organize_file places the file, ends the call as a rejection:
\* _process_file returns (the thread is idle again), the release of the path
\* is scheduled, and after a probing error organize_file is not called (no
\* call is recorded, the files and the counters are as they were); an error
\* of the placement leaves the files as they were and is counted in errors.
C21_ErrorIsRejection ==
  [][\A t \in Observers :
       /\ (C21_Statement(t) /\ probe'[t].verdict = "error")
            => /\ wpc'[t] = "idle"
               /\ timers'[wpath[t]] = timers[wpath[t]] + 1
               /\ track'[wpath[t]].calls = track[wpath[t]].calls
               /\ UNCHANGED <<files, dirs, stats, call, hist>>
       /\ (C21_Statement(t) /\ wpc'[t] = "idle" /\ probe'[t].verdict = "forwarded"
             /\ hist'[t].raised # None)
            => /\ timers'[wpath[t]] = timers[wpath[t]] + 1
               /\ hist'[t].returned = FALSE
               /\ files' = files
               /\ call[t].key = "errors" /\ stats'.errors = call[t].loaded + 1]_vars

\* one thread has met an error of stat() at its second probe, the other an
\* error of the placement; both have returned and a release is scheduled
C21_Witness ==
  /\ wpc["obs1"] = "idle" /\ probe["obs1"].verdict = "error" /\ probe["obs1"].e1
  /\ wpc["obs2"] = "idle" /\ probe["obs2"].verdict = "forwarded"
  /\ hist["obs2"].raised = "PermissionError"
  /\ hist["obs1"] = NoHist
  /\ timers[wpath["obs1"]] > 0 /\ timers[wpath["obs2"]] > 0

\* ------------------------------------------------- the shared organizer
\* C29 (as claimed): the counters never decrease, and every organize_file call
\* on a path that is no directory, when it completes, has raised exactly one
\* of moved, skipped, errors by exactly one, also when two observer threads
\* call the one organizer at the same time (here: for files of two paths).
C29_CountersAreExact ==
  [][(wpath["obs1"] # wpath["obs2"]) =>
       /\ \A k \in {"moved", "skipped", "errors"} : stats'[k] >= stats[k]
       /\ \A t \in Observers :
            (call[t].pc = "count" /\ call'[t].pc = "none")
              => \E k \in {"moved", "skipped", "errors"} : stats' = Bump(stats, k)]_vars

\* ----------------------------------------------------- the watch session
\* the watch directories that pass the check of start(): the paths that exist
C22_Valid == {i \in 1..Len(config.watch_directories) :
                PathExists(files, dirs, config.watch_directories[i])}

\* C22: start() ends the process with status 1 exactly when the list of
\* watch directories is empty or none of its paths exists, and then no
\* observer has been started; when start() has returned, an observer is
\* running for every listed path that exists and for no other, and
\* self.observers holds them in the order of the list.
C22_StartValidates ==
  /\ (spc = "exited" /\ caught = None)
       => /\ exit_status = 1
          /\ C22_Valid = {}
          /\ \A i \in 1..MaxDirs : othread[i] = "new"
  /\ spc = "blocked"
       => /\ C22_Valid # {}
          /\ \A i \in 1..MaxDirs : othread[i] = "running" <=> i \in C22_Valid
          /\ {observers[j] : j \in 1..Len(observers)} = C22_Valid
          /\ \A j, k \in 1..Len(observers) : j < k => observers[j] < observers[k]

\* start() has returned with one observer, having passed over a path that
\* does not exist
C22_Witness ==
  /\ spc = "blocked"
  /\ Len(config.watch_directories) = 2
  /\ Len(observers) = 1
  /\ \E i \in 1..2 : config.watch_directories[i] = Missing

\* C23 (as claimed): when stop() has returned, no observer that start() had
\* started is left running: each has been stopped and joined.
C23_StopQuiesces ==
  (spc = "returned" \/ (spc = "exited" /\ caught # None))
    => \A i \in 1..MaxDirs : othread[i] \in {"new", "joined"}

\* C24: when run() has returned or the process has exited after an observer
\* was started, an except clause of run() had caught the interrupt or the
\* exception and stop() has run through self.observers; after an exception
\* the process has exited with status 1, after the interrupt run() has
\* returned without an exit status.
C24_StopBeforeTheEnd ==
  (spc \in {"returned", "exited"} /\ \E i \in 1..MaxDirs : othread[i] # "new")
    => /\ caught \in {"KeyboardInterrupt", "Exception"}
       /\ sidx > Len(observers)
       /\ \A j \in 1..Len(observers) : othread[observers[j]] = "joined"
       /\ caught = "Exception" => (spc = "exited" /\ exit_status = 1)
       /\ caught = "KeyboardInterrupt" => (spc = "returned" /\ exit_status = None)

\* two observers were running when an exception was raised in the loop of
\* run(); both have been joined and the process has exited with status 1
C24_Witness ==
  /\ spc = "exited" /\ caught = "Exception" /\ exit_status = 1
  /\ Len(observers) = 2
  /\ \A i \in 1..2 : othread[i] = "joined"

\* ------------------------------------------------- the watcher: the events
\* the observer thread t is handed an event
C25_Event(t) == events' = events + 1 /\ last_event'.observer = t

\* C25: an event for a directory changes nothing of the handler or the
\* organizer: nothing enters processing_files, no thread leaves its idle
\* position, no release is scheduled, organize_file is not called. An event
\* for a file is probed at the path the file has after the event: src_path
\* of a creation, dest_path of a move (never the path the file was moved
\* from), in the directory the observer watches.
C25_DirectoryEventsIgnored ==
  [][\A t \in Observers :
       /\ (C25_Event(t) /\ last_event'.file_path = NoPath)
            => /\ UNCHANGED <<processing_files, wpc, wpath, initial_size, timers, probe, track>>
               /\ UNCHANGED <<files, dirs, stats, call, hist>>
       /\ (C25_Event(t) /\ last_event'.file_path # NoPath)
            => /\ wpath'[t] = last_event'.file_path
               /\ wpath'[t] \in {e.src_path : e \in {c \in CreatedEvents(t) : ~c.is_directory}}
                                 \cup {e.dest_path : e \in {m \in MovedEvents(t) : ~m.is_directory}}
               /\ wpath'[t] \notin {e.src_path : e \in MovedEvents(t)}]_vars

\* an event for a directory was delivered after an event for a file: the
\* file's probe sequence is on its way, and nothing else is in flight
C25_Witness ==
  \E t, u \in Observers :
    /\ events = 2
    /\ last_event = [observer |-> t, file_path |-> NoPath]
    /\ wpc[t] = "idle" /\ wpath[t] = NoPath
    /\ wpc[u] = "probe1" /\ processing_files = {wpath[u]}
    /\ \A p \in WatchPaths : timers[p] = 0

\* C26: an event for a path that is in processing_files is dropped: the set,
\* the positions of the threads, what the probes have seen, the releases
\* scheduled, the files and the organizer are all as they were.
C26_DroppedEventIsNoOp ==
  [][\A t \in Observers :
       (C25_Event(t) /\ last_event'.file_path \in processing_files)
         => /\ UNCHANGED <<processing_files, wpc, initial_size, timers, probe, track>>
            /\ UNCHANGED <<files, dirs, stats, call, hist>>]_vars

\* a thread whose probe sequence has ended was handed a second event for
\* its path before the release: it is idle, and one release is scheduled
C26_Witness ==
  \E t \in Observers :
    /\ events = 2
    /\ last_event = [observer |-> t, file_path |-> wpath[t]]
    /\ wpath[t] \in processing_files
    /\ wpc[t] = "idle" /\ probe[t].verdict # "none"
    /\ timers[wpath[t]] = 1
    /\ \A u \in Observers \ {t} : wpath[u] = NoPath

\* C27 (as claimed): under the rename policy a placement never moves its file
\* onto a file that is there: the path _handle_duplicate has found free is
\* still free when shutil.move is reached, also when another observer thread
\* places a file of the same name and category at the same time.
C27_ConcurrentRenameNeverOverwrites ==
  [][\A t \in Observers :
       ( /\ config.duplicate_handling = "rename"
         /\ call[t].pc = "move" /\ call'[t].pc # "move"
         /\ hist'[t].outcome = "moved" )
         => call[t].target_path \notin DOMAIN files]_vars

\* C28 (as claimed): while a thread runs the probe sequence of a path (from
\* the statement after it has put the path into processing_files to the
\* return of _process_file) the path is in processing_files: no release
\* scheduled by another accepted event for the path removes it meanwhile.
C28_InFlightWhileProbing ==
  \A t \in Observers :
    wpc[t] \in {"probe1", "probe2", "organize"} => wpath[t] \in processing_files

\* ------------------------------------------------------- the batch: snapshot
\* the calls of the batch accounted for: those counted and the one under way
C30_Accounted(st, c) ==
  st.moved + st.skipped + st.errors + (IF c["main"].pc = "move" THEN 1 ELSE 0)

\* C30: organize_directory lists the files before anything is moved, and
\* the list only shrinks while the directory is worked on: no file enters it,
\* a file a move of the batch has put into the scanned tree included, and
\* every file taken from it accounts for one organize_file call (one counter
\* raised by one), so that each listed file is processed once.
C30_BatchWorksOnSnapshot ==
  [][/\ (runpc = "dirs" /\ runpc' = "files")
          => /\ UNCHANGED <<files, stats>>
             /\ pending' \subseteq DOMAIN files
     /\ (runpc = "files" /\ runpc' = "files")
          => /\ pending' \subseteq pending
             /\ Cardinality(pending') + C30_Accounted(stats', call')
                  = Cardinality(pending) + C30_Accounted(stats, call)
     /\ (runpc = "files" /\ runpc' # "files") => pending = {}]_vars

\* the one file of a recursively scanned directory has been moved into a
\* target folder inside that directory; the list is empty and the loop ends
C30_Witness ==
  /\ config.recursive /\ runpc = "files" /\ pending = {} /\ call["main"].pc = "none"
  /\ created = 1 /\ ops = 1
  /\ stats = [moved |-> 1, skipped |-> 0, errors |-> 0]
  /\ \E p \in DOMAIN files :
       /\ IsStrictPrefix(Head(todo), p)
       /\ p = hist["main"].target_path /\ p # hist["main"].file_path

====
